---- MODULE Spec2Model ----
(***************************************************************************)
(* convert-nuget: packages.config -> packages.lock.json.                   *)
(*                                                                         *)
(* The model follows src/convert-nuget.js: main() walks the discovered     *)
(* manifests one at a time; processPackagesConfig() either restores an     *)
(* existing .csproj or generates a temporary one and narrows the package   *)
(* list on NU1202 diagnostics.  The external world (file system, dotnet    *)
(* restore) is nondeterministic.                                           *)
(*                                                                         *)
(* Representation of strings that the code takes apart:                    *)
(*  - a version string is the sequence of its '.'-separated segments       *)
(*    (what v.split('.') yields); the empty string is <<"">>;              *)
(*  - a diagnostic text is the sequence of its lines; a line may carry the *)
(*    NU1202 code and may carry one "Package <id> <version> is not         *)
(*    compatible" phrase.                                                  *)
(***************************************************************************)
EXTENDS Integers, Sequences, FiniteSets, TLC

VARIABLES
  pc,                    \* position of main(): start, fatal, for, existing, loop, account, done
  env,                   \* what the environment checks of main() found
  failOnSkipped,         \* parseArgs(): --fail-on-skipped
  files,                 \* packagesConfigFiles.length
  idx,                   \* number of manifests main's for loop has started
  manifest,              \* the manifest being processed, as the file system holds it
  manifestRead,          \* history: parsePackagesConfig was called for the current manifest
  compatiblePackages,    \* processPackagesConfig local
  skippedPackages,       \* processPackagesConfig local
  retryCount,            \* processPackagesConfig local
  restoreSuccess,        \* processPackagesConfig local
  lastError,             \* processPackagesConfig local: kind of the last caught error
  workdir,               \* TRUE while the temporary directory exists
  lockWritten,           \* TRUE when packages.lock.json was copied beside the current manifest
  attempts,              \* history: the dotnet restore invocations made for the current manifest
  result,                \* value returned by processPackagesConfig, until main accounts for it
  successCount,          \* main local
  failCount,             \* main local
  totalSkippedPackages,  \* main local
  processed,             \* history: one summary per manifest main has accounted for
  everSkipped,           \* history: every entry pushed on a skip list during this run
  exitStatus,            \* process exit status, -1 while running
  diagLinesLeft,         \* diagnostic lines the resolver may still emit in this run (bound)
  pkgsLeft,              \* package entries the manifests may still list in this run (bound)
  nvIn,                  \* version handed to normalizeVersion (pure-function specification)
  nvOut,                 \* result of the applications so far
  nvApplied,             \* number of applications so far
  fcPackages,            \* candidates handed to the narrowing filter (pure-function specification)
  fcIncompatible,        \* entries of the diagnostic handed to the narrowing filter
  fcOut,                 \* candidates the filter kept
  fcApplied,             \* number of applications of the filter
  lpPc,                  \* narrowing loop over candidate counts: idle, loop, after, returned
  lpCandidates,          \* compatiblePackages.length
  lpRetry,               \* retryCount
  lpSuccess,             \* restoreSuccess
  lpInvocations,         \* history: dotnet restore invocations made
  lpResult               \* success of the value returned

vars == <<pc, failOnSkipped, files, idx, manifest, manifestRead, compatiblePackages, skippedPackages,
          retryCount, restoreSuccess, lastError, workdir, lockWritten, attempts, result,
          successCount, failCount, totalSkippedPackages, processed, exitStatus,
          diagLinesLeft, pkgsLeft, env, everSkipped, nvIn, nvOut, nvApplied,
          fcPackages, fcIncompatible, fcOut, fcApplied,
          lpPc, lpCandidates, lpRetry, lpSuccess, lpInvocations, lpResult>>

mainVars == <<pc, failOnSkipped, files, idx, manifest, manifestRead, compatiblePackages, skippedPackages,
              retryCount, restoreSuccess, lastError, workdir, lockWritten, attempts, result,
              successCount, failCount, totalSkippedPackages, processed, exitStatus,
              diagLinesLeft, pkgsLeft, env, everSkipped>>

normVars == <<nvIn, nvOut, nvApplied>>

filterVars == <<fcPackages, fcIncompatible, fcOut, fcApplied>>

loopVars == <<lpPc, lpCandidates, lpRetry, lpSuccess, lpInvocations, lpResult>>

pureVars == <<normVars, filterVars, loopVars>>

(***************************************************************************)
(* Bounds of the model.                                                    *)
(***************************************************************************)
MaxManifests == 2   \* manifests discovered in the tree
MaxPkgs == 2        \* package entries the manifests of one run list
MaxDiagLines == 2   \* diagnostic lines the resolver emits during one run
MaxSegs == 4        \* segments of a version handed to normalizeVersion
MaxApply == 2       \* successive applications of normalizeVersion
MaxCand == 2        \* candidates handed to the narrowing filter
MaxReported == 1    \* entries of the diagnostic handed to the narrowing filter
MaxCandidates == 22 \* packages of the manifest whose narrowing loop is counted

(***************************************************************************)
(* Program constants.                                                      *)
(***************************************************************************)
maxRetries == 20
DEFAULT_TFM == "net472"

(***************************************************************************)
(* Input universes.                                                        *)
(***************************************************************************)
Pkg(i, v) == [id |-> i, version |-> v]

\* Packages a manifest may list.
ManifestPkgs == { Pkg("A", <<"1", "0">>), Pkg("B", <<"2", "0">>) }

\* Packages a diagnostic may name: the same, another spelling of the first,
\* and a package no manifest lists.
PackageRefs == ManifestPkgs \cup { Pkg("a", <<"1">>), Pkg("B", <<"3">>) }

SeqsUpTo(S, n) == UNION { [1..k -> S] : k \in 0..n }

Range(s) == { s[i] : i \in 1..Len(s) }

\* The targetFramework attribute of the first package entry; the manifests of
\* the model carry none.
NoTfm == "null"
TfmTags == { NoTfm }

\* A manifest directory of the file system: the number of .csproj files
\* beside packages.config, whether packages.config can be read and parsed,
\* and what it lists.  A packages.config beside a .csproj is never read: the
\* model lets it list nothing or one package.
Manifests(n) ==
  { m \in [csproj : 0..2, malformed : BOOLEAN,
           packages : SeqsUpTo(ManifestPkgs, n), targetFramework : TfmTags] :
      /\ m.malformed => (m.packages = <<>>)
      /\ (m.packages = <<>>) => (m.targetFramework = NoTfm)
      /\ (m.csproj > 0) => (Len(m.packages) <= 1 /\ ~ m.malformed) }

NoManifest == [csproj |-> 0, malformed |-> FALSE, packages |-> <<>>, targetFramework |-> NoTfm]

\* A line of diagnostic output: it carries the NU1202 code, or one
\* "Package <id> <version> is not compatible" phrase, or both.
Lines ==
  { l \in [code : BOOLEAN, named : {<<>>} \cup { <<p>> : p \in PackageRefs }] :
      l.code \/ l.named # <<>> }

Texts(n) == SeqsUpTo(Lines, n)

\* What one dotnet restore invocation hands back: exit status and stdout + stderr.
\* (The restore of an existing .csproj is given at most one line.)
Responses(n) ==
  { [ok |-> TRUE, text |-> <<>>] } \cup { [ok |-> FALSE, text |-> t] : t \in Texts(n) }

Segments == { "0", "1", "2" }
Versions == UNION { [1..k -> Segments] : k \in 1..MaxSegs }

NoResult == [success |-> FALSE, skippedPackages |-> <<>>, returned |-> FALSE]
Returned(ok, skipped) == [success |-> ok, skippedPackages |-> skipped, returned |-> TRUE]

(***************************************************************************)
(* Pure helpers of src/convert-nuget.js.                                   *)
(***************************************************************************)
\* String.prototype.toLowerCase on the identifiers of the universe.
toLowerCase(s) ==
  CASE s = "A" -> "a"
    [] s = "B" -> "b"
    [] s = "Foo" -> "foo"
    [] s = "Bar" -> "bar"
    [] OTHER -> s

\* Array.prototype.join('.') in the segment representation: joining no
\* segment gives the empty string, which splits into one empty segment.
join(parts) == IF parts = <<>> THEN <<"">> ELSE parts

\* v.split('.').filter((p, i, arr) => i < arr.length - 1 || p !== '0').join('.')
normalizeVersion(v) ==
  LET arr == v
      keep(i) == i < Len(arr) \/ arr[i] # "0"
      idxs == { i \in 1..Len(arr) : keep(i) }
      F[i \in 0..Len(arr)] ==
        IF i = 0 THEN <<>>
        ELSE IF i \in idxs THEN Append(F[i - 1], arr[i]) ELSE F[i - 1]
  IN join(F[Len(arr)])

\* errorOutput.includes('NU1202')
includesNU1202(text) == \E i \in 1..Len(text) : text[i].code

\* extractIncompatiblePackages: every match of the regular expression, in order.
extractIncompatiblePackages(text) ==
  LET F[i \in 0..Len(text)] ==
        IF i = 0 THEN <<>> ELSE F[i - 1] \o text[i].named
  IN F[Len(text)]

\* The predicate of incompatible.some(...) in the narrowing filter.
sameIncompatible(incomp, pkg) ==
  /\ toLowerCase(incomp.id) = toLowerCase(pkg.id)
  /\ normalizeVersion(incomp.version) = normalizeVersion(pkg.version)

\* Mutant of filterCompatible: the candidates kept come out in reverse order.
filterCompatible_Reversed(packages, incompatible) ==
  LET kept == SelectSeq(packages,
                        LAMBDA pkg : ~ \E i \in 1..Len(incompatible) :
                                         sameIncompatible(incompatible[i], pkg))
  IN [i \in 1..Len(kept) |-> kept[Len(kept) + 1 - i]]

\* compatiblePackages.filter(pkg => !incompatible.some(...))
filterCompatible(packages, incompatible) ==
  SelectSeq(packages,
            LAMBDA pkg : ~ \E i \in 1..Len(incompatible) : sameIncompatible(incompatible[i], pkg))

\* tfm.startsWith('net4')
startsWithNet4(tfm) == tfm \in { "net40", "net472" }

\* generateCsproj: the descriptor handed to the resolver.
generateCsproj(packages, tfm, hasExplicitTfm) ==
  [kind |-> "generated",
   targetFramework |-> tfm,
   assetTargetFallback |-> (hasExplicitTfm /\ startsWithNet4(tfm)),
   packageReferences |-> packages]

\* The pre-existing .csproj, which the program never reads.
existingCsproj ==
  [kind |-> "existing", targetFramework |-> "", assetTargetFallback |-> FALSE,
   packageReferences |-> <<>>]

\* parsePackagesConfig on a readable file: every entry with an id and a version
\* is pushed, in the order of the file; nothing else is looked at.
parsePackagesConfig(m) ==
  [packages |-> SelectSeq(m.packages, LAMBDA e : e.id # "" /\ e.version # <<"">>),
   targetFramework |-> m.targetFramework]

\* Mutant of findCsprojFile: with several .csproj files the first one is used.
findCsprojFile_FirstOfMany(m) ==
  IF m.csproj = 0 THEN "null" ELSE "file"

\* findCsprojFile(dir): null, the single file, or the 'Multiple .csproj files' error.
findCsprojFile(m) ==
  IF m.csproj = 0 THEN "null"
  ELSE IF m.csproj > 1 THEN "throw"
  ELSE "file"

\* Mutant of entryPath: the result of findCsprojFile is ignored unless it throws.
entryPath_IgnoresExisting(m) ==
  CASE findCsprojFile(m) = "throw" -> "ambiguous"
    [] OTHER -> IF m.malformed THEN "parseError"
                ELSE IF Len(m.packages) = 0 THEN "noPackages"
                ELSE "narrow"

\* The path processPackagesConfig takes before any resolver invocation.
entryPath(m) ==
  CASE findCsprojFile(m) = "throw" -> "ambiguous"
    [] findCsprojFile(m) = "file" -> "existing"
    [] OTHER -> IF m.malformed THEN "parseError"
                ELSE IF Len(parsePackagesConfig(m).packages) = 0 THEN "noPackages"
                ELSE "narrow"

\* Mutant of earlyReturn: a manifest without packages is skipped as a success.
earlyReturn_NoPackagesSucceeds(path) ==
  IF path = "noPackages" THEN Returned(TRUE, <<>>) ELSE Returned(FALSE, <<>>)

\* The value returned on the paths that end before any resolver invocation:
\* 'Multiple .csproj files', a parse error caught by the outer catch, and
\* 'No packages found'.
earlyReturn(path) == Returned(FALSE, <<>>)

\* Mutant of loopGuard: the number of attempts is not bounded.
loopGuard_Unbounded(retries, candidates) == candidates > 0

\* while (retryCount < maxRetries && compatiblePackages.length > 0)
loopGuard(retries, candidates) == retries < maxRetries /\ candidates > 0

\* Mutant of cleanup: the temporary directory is left behind.
cleanup_LeftBehind(exists) == exists

\* The finally block: fs.rm(workdir, { recursive: true, force: true }); the
\* directory no longer exists.
cleanup(exists) == FALSE

\* Mutant of forOf: every second manifest is left out.
forOf_SkipsOne(i) == i + 2

\* for (const packagesConfig of packagesConfigFiles): the iterator hands out
\* the discovered manifests one after the other.
forOf(i) == i + 1

\* Mutant of afterLoop: the lock file is copied whatever the restore gave.
afterLoop_CopiesAlways(success, skipped, copied) ==
  IF ~ success THEN [result |-> Returned(FALSE, skipped), lock |-> TRUE]
  ELSE IF copied THEN [result |-> Returned(TRUE, skipped), lock |-> TRUE]
  ELSE [result |-> Returned(FALSE, <<>>), lock |-> FALSE]

\* One entry of the invocation history.
Invocation(descriptor, resp) ==
  [descriptor |-> descriptor,
   ok |-> resp.ok,
   hasCode |-> includesNU1202(resp.text),
   incompatible |-> extractIncompatiblePackages(resp.text)]

(***************************************************************************)
(* Initial state: main() after parseArgs().                                *)
(***************************************************************************)
NormIdle ==
  /\ nvIn = <<"0">>
  /\ nvOut = <<"0">>
  /\ nvApplied = 0

FilterIdle ==
  /\ fcPackages = <<>>
  /\ fcIncompatible = <<>>
  /\ fcOut = <<>>
  /\ fcApplied = 0

LoopIdle ==
  /\ lpPc = "idle"
  /\ lpCandidates = 0
  /\ lpRetry = 0
  /\ lpSuccess = FALSE
  /\ lpInvocations = 0
  /\ lpResult = FALSE

Init ==
  /\ pc = "start"
  /\ failOnSkipped \in BOOLEAN
  /\ files = 0
  /\ idx = 0
  /\ manifest = NoManifest
  /\ manifestRead = FALSE
  /\ compatiblePackages = <<>>
  /\ skippedPackages = <<>>
  /\ retryCount = 0
  /\ restoreSuccess = FALSE
  /\ lastError = "null"
  /\ workdir = FALSE
  /\ lockWritten = FALSE
  /\ attempts = <<>>
  /\ result = NoResult
  /\ successCount = 0
  /\ failCount = 0
  /\ totalSkippedPackages = <<>>
  /\ processed = <<>>
  /\ exitStatus = -1
  /\ diagLinesLeft = MaxDiagLines
  /\ pkgsLeft = MaxPkgs
  /\ env = "unchecked"
  /\ everSkipped = {}
  /\ NormIdle
  /\ FilterIdle
  /\ LoopIdle

(***************************************************************************)
(* main(): environment checks and discovery.                               *)
(***************************************************************************)
\* What the file system and the PATH hold for the checks of main().
Environments == { "invalidPath", "missing", "notDirectory", "noDotnet", "ok" }

\* Mutant of environmentOk: the dotnet probe is left out.
environmentOk_DotnetNotProbed(e) == e \in { "ok", "noDotnet" }

\* The checks in the order of main(): the path pattern, fs.stat, isDirectory,
\* the dotnet probes; each of them ends in process.exit(1) when it fails.
environmentOk(e) ==
  /\ e # "invalidPath"
  /\ e # "missing"
  /\ e # "notDirectory"
  /\ e # "noDotnet"

\* Root directory validation and the dotnet probe; any failure is process.exit(1).
\* On success findPackagesConfigFiles() returns the manifests of the tree.
CheckEnvironment ==
  /\ pc = "start"
  /\ \E e \in Environments :
       /\ env' = e
       /\ IF environmentOk(e)
          THEN /\ \E n \in 0..MaxManifests : files' = n
               /\ pc' = "for"
               /\ UNCHANGED exitStatus
          ELSE /\ pc' = "fatal"
               /\ exitStatus' = 1
               /\ UNCHANGED files
  /\ UNCHANGED <<failOnSkipped, idx, manifest, manifestRead, compatiblePackages, skippedPackages,
                 retryCount, restoreSuccess, lastError, workdir, lockWritten, attempts,
                 result, successCount, failCount, totalSkippedPackages, processed,
                 diagLinesLeft, pkgsLeft, everSkipped>>
  /\ UNCHANGED pureVars

(***************************************************************************)
(* processPackagesConfig(): from its call up to the first resolver         *)
(* invocation or an early return.                                          *)
(***************************************************************************)
BeginManifest ==
  /\ pc = "for"
  /\ idx < files
  /\ \E m \in Manifests(pkgsLeft) :
       \E path \in { entryPath(m) } :
         /\ manifest' = m
         /\ manifestRead' = (path \in { "parseError", "noPackages", "narrow" })
         /\ pkgsLeft' = pkgsLeft - Len(m.packages)
         /\ idx' = forOf(idx)
         /\ CASE path = "existing" ->
                   /\ pc' = "existing"
                   /\ UNCHANGED <<result, workdir, compatiblePackages>>
              [] path = "narrow" ->
                   \* mkdtemp, then the loop's locals
                   /\ compatiblePackages' = parsePackagesConfig(m).packages
                   /\ IF loopGuard(0, Len(parsePackagesConfig(m).packages))
                      THEN /\ workdir' = TRUE
                           /\ pc' = "loop"
                           /\ UNCHANGED result
                      ELSE \* the loop is not entered: reading lastError.stdout of
                           \* null throws, finally removes the directory, the outer
                           \* catch returns
                           /\ workdir' = cleanup(TRUE)
                           /\ result' = Returned(FALSE, <<>>)
                           /\ pc' = "account"
              [] OTHER ->
                   /\ result' = earlyReturn(path)
                   /\ pc' = "account"
                   /\ UNCHANGED <<workdir, compatiblePackages>>
  /\ UNCHANGED <<failOnSkipped, files, skippedPackages, retryCount, restoreSuccess,
                 lastError, lockWritten, attempts, successCount, failCount,
                 totalSkippedPackages, processed, exitStatus, diagLinesLeft,
                 env, everSkipped>>
  /\ UNCHANGED pureVars

(***************************************************************************)
(* processPackagesConfig(): the existing-.csproj path.                     *)
(***************************************************************************)
\* dotnet restore on the existing .csproj, then the copy of the lock file
\* from the project directory or from obj/.
RestoreExisting ==
  /\ pc = "existing"
  /\ \E resp \in Responses(IF diagLinesLeft > 0 THEN 1 ELSE 0), lockFound \in BOOLEAN :
       /\ attempts' = Append(attempts, Invocation(existingCsproj, resp))
       /\ diagLinesLeft' = diagLinesLeft - Len(resp.text)
       /\ IF resp.ok
          THEN /\ lockWritten' = lockFound
               /\ result' = Returned(lockFound, <<>>)
               /\ UNCHANGED lastError
          ELSE /\ lockFound = FALSE
               /\ result' = Returned(FALSE, <<>>)
               /\ lastError' = "restore"
               /\ UNCHANGED lockWritten
  /\ pc' = "account"
  /\ UNCHANGED <<failOnSkipped, files, idx, manifest, manifestRead, compatiblePackages, skippedPackages,
                 retryCount, restoreSuccess, workdir, successCount, failCount,
                 totalSkippedPackages, processed, exitStatus, pkgsLeft, env, everSkipped>>
  /\ UNCHANGED pureVars

(***************************************************************************)
(* processPackagesConfig(): the narrowing loop.                            *)
(***************************************************************************)
\* const tfm = targetFramework || defaultTfm
tfmOf(m) == IF m.targetFramework # NoTfm THEN m.targetFramework ELSE DEFAULT_TFM

\* Mutant of narrowOnFailure: the removed packages are not recorded as skipped.
narrowOnFailure_SkipNotRecorded(packages, skipped, text) ==
  LET incompatible == extractIncompatiblePackages(text)
      remaining == filterCompatible(packages, incompatible)
  IN IF /\ includesNU1202(text)
        /\ Len(incompatible) > 0
        /\ Len(remaining) < Len(packages)
     THEN [packages |-> remaining, skipped |-> skipped, continue |-> TRUE]
     ELSE [packages |-> packages, skipped |-> skipped, continue |-> FALSE]

\* Mutant of narrowOnFailure: the NU1202 code is not required.
narrowOnFailure_WithoutCode(packages, skipped, text) ==
  LET incompatible == extractIncompatiblePackages(text)
      remaining == filterCompatible(packages, incompatible)
  IN IF /\ Len(incompatible) > 0
        /\ Len(remaining) < Len(packages)
     THEN [packages |-> remaining, skipped |-> skipped \o incompatible, continue |-> TRUE]
     ELSE [packages |-> packages, skipped |-> skipped, continue |-> FALSE]

\* Mutant of narrowOnFailure: the loop goes on when nothing was removed.
narrowOnFailure_StuckContinues(packages, skipped, text) ==
  LET incompatible == extractIncompatiblePackages(text)
      remaining == filterCompatible(packages, incompatible)
  IN IF /\ includesNU1202(text)
        /\ Len(incompatible) > 0
     THEN [packages |-> remaining,
           skipped |-> IF Len(remaining) < Len(packages)
                       THEN skipped \o incompatible ELSE skipped,
           continue |-> TRUE]
     ELSE [packages |-> packages, skipped |-> skipped, continue |-> FALSE]

\* Mutant of narrowOnFailure: the rejected packages stay in the candidate list.
narrowOnFailure_NothingRemoved(packages, skipped, text) ==
  LET incompatible == extractIncompatiblePackages(text)
      remaining == filterCompatible(packages, incompatible)
  IN IF /\ includesNU1202(text)
        /\ Len(incompatible) > 0
        /\ Len(remaining) < Len(packages)
     THEN [packages |-> packages, skipped |-> skipped \o incompatible, continue |-> TRUE]
     ELSE [packages |-> packages, skipped |-> skipped, continue |-> FALSE]

\* The catch block of one iteration on a failed restore: the new candidate
\* list, the new skip list, and whether the loop continues.
narrowOnFailure(packages, skipped, text) ==
  LET incompatible == extractIncompatiblePackages(text)
      remaining == filterCompatible(packages, incompatible)
  IN IF includesNU1202(text) /\ Len(incompatible) > 0
     THEN \* compatiblePackages is assigned the filter's result in either case
          IF Len(remaining) < Len(packages)
          THEN [packages |-> remaining, skipped |-> skipped \o incompatible, continue |-> TRUE]
          ELSE [packages |-> remaining, skipped |-> skipped, continue |-> FALSE]
     ELSE [packages |-> packages, skipped |-> skipped, continue |-> FALSE]

\* The try block after a successful restore: restoreSuccess is set, and with
\* failOnSkipped and a non-empty skip list an Error is thrown.  The throw is
\* inside the loop's own try, so the loop's catch receives it: the Error has
\* no stdout or stderr, the output is empty, and the loop breaks.
thrownOnSuccess(flag, skipped) == flag /\ Len(skipped) > 0

\* The statements after the loop: the failure return, or the copy of the lock
\* file and the success return; a failed copy throws to the outer catch, which
\* returns a failure without the skip list.
afterLoop(success, skipped, copied) ==
  IF ~ success THEN [result |-> Returned(FALSE, skipped), lock |-> FALSE]
  ELSE IF copied THEN [result |-> Returned(TRUE, skipped), lock |-> TRUE]
  ELSE [result |-> Returned(FALSE, <<>>), lock |-> FALSE]

\* Mutant of errorOutput: the Error thrown for skipped packages is read as a
\* diagnostic that rejects the first package of the universe.
errorOutput_ThrownNamesPackage(thrown, text) ==
  IF thrown THEN << [code |-> TRUE, named |-> << Pkg("A", <<"1", "0">>) >>] >> ELSE text

\* const errorOutput = stdout + stderr in the catch block: the output of the
\* failed restore; the Error thrown for skipped packages has neither stdout
\* nor stderr.
errorOutput(thrown, text) == IF thrown THEN <<>> ELSE text

\* One iteration of while (retryCount < maxRetries && compatiblePackages.length > 0);
\* when the loop ends with it, the rest of processPackagesConfig up to its
\* return, the finally block included.
RestoreAttempt ==
  /\ pc = "loop"
  /\ loopGuard(retryCount, Len(compatiblePackages))
  /\ \E resp \in Responses(diagLinesLeft) :
       \E thrown \in { resp.ok /\ thrownOnSuccess(failOnSkipped, skippedPackages) } :
       \E n \in { IF ~ resp.ok \/ thrown
                   THEN narrowOnFailure(compatiblePackages, skippedPackages,
                                        errorOutput(thrown, resp.text))
                   ELSE [packages |-> compatiblePackages, skipped |-> skippedPackages,
                         continue |-> FALSE] } :
         /\ attempts' = Append(attempts,
                               Invocation(generateCsproj(compatiblePackages, tfmOf(manifest),
                                                         manifest.targetFramework # NoTfm),
                                          resp))
         /\ diagLinesLeft' = diagLinesLeft - Len(resp.text)
         /\ restoreSuccess' = resp.ok
         /\ lastError' = IF thrown THEN "skipped" ELSE IF resp.ok THEN lastError ELSE "restore"
         /\ compatiblePackages' = n.packages
         /\ skippedPackages' = n.skipped
         /\ everSkipped' = everSkipped \cup Range(n.skipped)
         /\ retryCount' = IF n.continue THEN retryCount + 1 ELSE retryCount
         /\ IF n.continue /\ loopGuard(retryCount + 1, Len(n.packages))
            THEN /\ pc' = "loop"
                 /\ UNCHANGED <<result, lockWritten, workdir>>
            ELSE \E copied \in (IF resp.ok THEN BOOLEAN ELSE {FALSE}) :
                   \E fin \in { afterLoop(resp.ok, n.skipped, copied) } :
                     /\ pc' = "account"
                     /\ result' = fin.result
                     /\ lockWritten' = fin.lock
                     /\ workdir' = cleanup(workdir)
  /\ UNCHANGED <<failOnSkipped, files, idx, manifest, manifestRead, successCount, failCount,
                 totalSkippedPackages, processed, exitStatus, pkgsLeft, env>>
  /\ UNCHANGED pureVars

(***************************************************************************)
(* main(): the body of the for loop after processPackagesConfig returned,  *)
(* and the summary.                                                        *)
(***************************************************************************)
\* Mutant of count: a failed manifest is not counted.
count_FailureNotCounted(success, succeeded, failed) ==
  IF success THEN [successCount |-> succeeded + 1, failCount |-> failed]
  ELSE [successCount |-> succeeded, failCount |-> failed]

\* if (result.success) successCount++ else failCount++
count(success, succeeded, failed) ==
  IF success THEN [successCount |-> succeeded + 1, failCount |-> failed]
  ELSE [successCount |-> succeeded, failCount |-> failed + 1]

Account ==
  /\ pc = "account"
  /\ result.returned
  /\ successCount' = count(result.success, successCount, failCount).successCount
  /\ failCount' = count(result.success, successCount, failCount).failCount
  /\ totalSkippedPackages' =
       IF Len(result.skippedPackages) > 0
       THEN totalSkippedPackages \o result.skippedPackages
       ELSE totalSkippedPackages
  /\ processed' = Append(processed,
                         [csproj |-> manifest.csproj,
                          success |-> result.success,
                          invocations |-> Len(attempts),
                          lockWritten |-> lockWritten])
  \* the callee's locals are gone once main has its result
  /\ result' = NoResult
  /\ manifest' = NoManifest
  /\ manifestRead' = FALSE
  /\ compatiblePackages' = <<>>
  /\ skippedPackages' = <<>>
  /\ retryCount' = 0
  /\ restoreSuccess' = FALSE
  /\ lastError' = "null"
  /\ lockWritten' = FALSE
  /\ attempts' = <<>>
  /\ pc' = "for"
  /\ UNCHANGED <<failOnSkipped, files, idx, workdir, exitStatus, diagLinesLeft, pkgsLeft,
                 env, everSkipped>>
  /\ UNCHANGED pureVars

\* Mutant of exitCode: skipped packages never change the exit status.
exitCode_IgnoresSkipped(failed, flag, totalSkipped) ==
  IF failed > 0 THEN 1 ELSE 0

\* Mutant of exitCode: the strict flag is looked at before the failures.
exitCode_SkippedFirst(failed, flag, totalSkipped) ==
  IF flag /\ Len(totalSkipped) > 0 THEN 2
  ELSE IF failed > 0 THEN 1
  ELSE 0

\* uniqueSkipped of the summary: the entries of totalSkippedPackages keyed by
\* `${id}@${version}`, one entry per key.
uniqueSkipped(total) ==
  LET F[i \in 0..Len(total)] ==
        IF i = 0 THEN <<>>
        ELSE IF \E j \in 1..(i - 1) : total[j] = total[i]
             THEN F[i - 1]
             ELSE Append(F[i - 1], total[i])
  IN F[Len(total)]

\* The exit status after the summary.
exitCode(failed, flag, totalSkipped) ==
  IF failed > 0 THEN 1
  ELSE IF flag /\ Len(totalSkipped) > 0 THEN 2
  ELSE 0

Summarize ==
  /\ pc = "for"
  /\ idx = files
  /\ exitStatus' = exitCode(failCount, failOnSkipped, totalSkippedPackages)
  /\ pc' = "done"
  /\ UNCHANGED <<failOnSkipped, files, idx, manifest, manifestRead, compatiblePackages, skippedPackages,
                 retryCount, restoreSuccess, lastError, workdir, lockWritten, attempts,
                 result, successCount, failCount, totalSkippedPackages, processed,
                 diagLinesLeft, pkgsLeft, env, everSkipped>>
  /\ UNCHANGED pureVars

Next ==
  \/ CheckEnvironment
  \/ BeginManifest
  \/ RestoreExisting
  \/ RestoreAttempt
  \/ Account
  \/ Summarize

Spec == Init /\ [][Next]_vars

(***************************************************************************)
(* normalizeVersion as a pure function: the input is drawn from the        *)
(* bounded versions and the function is applied repeatedly.                *)
(***************************************************************************)
MainIdle ==
  /\ pc = "done"
  /\ failOnSkipped = FALSE
  /\ files = 0
  /\ idx = 0
  /\ manifest = NoManifest
  /\ manifestRead = FALSE
  /\ compatiblePackages = <<>>
  /\ skippedPackages = <<>>
  /\ retryCount = 0
  /\ restoreSuccess = FALSE
  /\ lastError = "null"
  /\ workdir = FALSE
  /\ lockWritten = FALSE
  /\ attempts = <<>>
  /\ result = NoResult
  /\ successCount = 0
  /\ failCount = 0
  /\ totalSkippedPackages = <<>>
  /\ processed = <<>>
  /\ exitStatus = -1
  /\ diagLinesLeft = 0
  /\ pkgsLeft = 0
  /\ env = "unchecked"
  /\ everSkipped = {}

NormInit ==
  /\ MainIdle
  /\ FilterIdle
  /\ LoopIdle
  /\ nvIn \in Versions
  /\ nvOut = nvIn
  /\ nvApplied = 0

ApplyNormalize ==
  /\ nvApplied < MaxApply
  /\ nvOut' = normalizeVersion(nvOut)
  /\ nvApplied' = nvApplied + 1
  /\ UNCHANGED nvIn
  /\ UNCHANGED <<mainVars, filterVars, loopVars>>

NormNext == ApplyNormalize

SpecNorm == NormInit /\ [][NormNext]_vars

(***************************************************************************)
(* The narrowing filter as a pure function: candidates and reported        *)
(* entries are drawn from bounded sets whose versions differ in their      *)
(* trailing zero segments, and the filter is applied once.                 *)
(***************************************************************************)
FilterVersions == { <<"1">>, <<"1", "0">>, <<"1", "0", "0", "0">>, <<"2", "0">> }

\* Candidates as parsePackagesConfig yields them.
FilterCandidates == { Pkg("Foo", v) : v \in FilterVersions }

\* Entries as extractIncompatiblePackages yields them.
FilterReported == { Pkg(i, v) : i \in { "foo", "Bar" }, v \in FilterVersions }

FilterInit ==
  /\ MainIdle
  /\ NormIdle
  /\ LoopIdle
  /\ fcPackages \in SeqsUpTo(FilterCandidates, MaxCand)
  /\ fcIncompatible \in SeqsUpTo(FilterReported, MaxReported)
  /\ fcOut = fcPackages
  /\ fcApplied = 0

ApplyFilter ==
  /\ fcApplied = 0
  /\ fcOut' = filterCompatible(fcPackages, fcIncompatible)
  /\ fcApplied' = 1
  /\ UNCHANGED <<fcPackages, fcIncompatible>>
  /\ UNCHANGED <<mainVars, normVars, loopVars>>

FilterNext == ApplyFilter

SpecFilter == FilterInit /\ [][FilterNext]_vars

(***************************************************************************)
(* The narrowing loop over candidate counts: a manifest of up to           *)
(* MaxCandidates packages, every failed attempt either removes some of the *)
(* candidates or ends the loop.                                            *)
(***************************************************************************)
LoopInit ==
  /\ MainIdle
  /\ NormIdle
  /\ FilterIdle
  /\ lpPc = "loop"
  /\ lpCandidates \in 1..MaxCandidates
  /\ lpRetry = 0
  /\ lpSuccess = FALSE
  /\ lpInvocations = 0
  /\ lpResult = FALSE

\* One iteration: the restore succeeds (break), or fails and the catch block
\* removes `removed` candidates (continue) or none (break).
LoopAttempt ==
  /\ lpPc = "loop"
  /\ loopGuard(lpRetry, lpCandidates)
  /\ lpInvocations' = lpInvocations + 1
  /\ \E ok \in BOOLEAN, removed \in 0..lpCandidates :
       IF ok
       THEN /\ removed = 0
            /\ lpSuccess' = TRUE
            /\ lpPc' = "after"
            /\ UNCHANGED <<lpCandidates, lpRetry>>
       ELSE IF removed > 0
       THEN /\ lpCandidates' = lpCandidates - removed
            /\ lpRetry' = lpRetry + 1
            /\ UNCHANGED <<lpSuccess, lpPc>>
       ELSE /\ lpPc' = "after"
            /\ UNCHANGED <<lpCandidates, lpRetry, lpSuccess>>
  /\ UNCHANGED lpResult
  /\ UNCHANGED <<mainVars, normVars, filterVars>>

\* The loop condition is false.
LoopExit ==
  /\ lpPc = "loop"
  /\ ~ loopGuard(lpRetry, lpCandidates)
  /\ lpPc' = "after"
  /\ UNCHANGED <<lpCandidates, lpRetry, lpSuccess, lpInvocations, lpResult>>
  /\ UNCHANGED <<mainVars, normVars, filterVars>>

\* The statements after the loop.
LoopReturn ==
  /\ lpPc = "after"
  /\ \E copied \in (IF lpSuccess THEN BOOLEAN ELSE {FALSE}) :
       lpResult' = afterLoop(lpSuccess, <<>>, copied).result.success
  /\ lpPc' = "returned"
  /\ UNCHANGED <<lpCandidates, lpRetry, lpSuccess, lpInvocations>>
  /\ UNCHANGED <<mainVars, normVars, filterVars>>

LoopNext ==
  \/ LoopAttempt
  \/ LoopExit
  \/ LoopReturn

SpecLoop == LoopInit /\ [][LoopNext]_vars

(***************************************************************************)
(* Properties.                                                             *)
(***************************************************************************)
A10 == Pkg("A", <<"1", "0">>)
B20 == Pkg("B", <<"2", "0">>)
B3 == Pkg("B", <<"3">>)

\* The version rule of the specification: trailing "0" segments are dropped
\* from the right until the last segment is not "0" or one segment is left.
RECURSIVE stripTrailingZeros(_)
stripTrailingZeros(v) ==
  IF Len(v) > 1 /\ v[Len(v)] = "0"
  THEN stripTrailingZeros(SubSeq(v, 1, Len(v) - 1))
  ELSE v

\* Identity of packages in the specification's data model: identifiers compare
\* case-insensitively, trailing zero segments of the version are insignificant.
SamePackage(a, b) ==
  /\ toLowerCase(a.id) = toLowerCase(b.id)
  /\ stripTrailingZeros(a.version) = stripTrailingZeros(b.version)

\* processPackagesConfig has returned from the narrowing path (no .csproj,
\* a parsed manifest with packages) and main has not yet counted the result.
NarrowingReturned ==
  /\ pc = "account"
  /\ manifestRead
  /\ ~ manifest.malformed
  /\ manifest.packages # <<>>

\* A failed attempt whose diagnostic carries NU1202 and names, as written in
\* the descriptor, a non-empty subset of the candidates handed to the resolver.
NamesCandidates(att) ==
  /\ ~ att.ok
  /\ att.hasCode
  /\ att.incompatible # <<>>
  /\ Range(att.incompatible) \subseteq Range(att.descriptor.packageReferences)

NamedUpTo(k) == UNION { Range(attempts[i].incompatible) : i \in 1..k }

C1_Case ==
  /\ NarrowingReturned
  /\ Len(attempts) >= 2
  /\ attempts[Len(attempts)].ok
  /\ \A i \in 1..(Len(attempts) - 1) : NamesCandidates(attempts[i])

\* C1: in the narrowing path, when every failed attempt named a non-empty
\* subset of its candidates as incompatible and the next attempt on the
\* remaining candidates succeeded, the loop ends in success and the skip list
\* holds exactly the named packages; the value returned is that success with
\* that skip list once the lock output is copied.
C1_SuccessCarriesNamedSubset ==
  C1_Case =>
    /\ restoreSuccess
    /\ Range(skippedPackages) = NamedUpTo(Len(attempts) - 1)
    /\ Range(compatiblePackages) = Range(manifest.packages) \ Range(skippedPackages)
    /\ attempts[Len(attempts)].descriptor.packageReferences = compatiblePackages
    /\ result.success = lockWritten
    /\ result.success => result.skippedPackages = skippedPackages

\* The scenario of the specification: A@1.0 and B@2.0, B@2.0 rejected, A@1.0 accepted.
C1_Witness ==
  /\ C1_Case
  /\ manifest.packages = <<A10, B20>>
  /\ Len(attempts) = 2
  /\ attempts[1].incompatible = <<B20>>
  /\ attempts[2].descriptor.packageReferences = <<A10>>
  /\ result.success
  /\ result.skippedPackages = <<B20>>

\* C2: every entry of the skip list of the narrowing loop, and of the value it
\* returns, is a package of the original candidate set.
C2_SkippedWithinOriginal ==
  /\ \A i \in 1..Len(skippedPackages) :
       \E p \in Range(manifest.packages) : SamePackage(skippedPackages[i], p)
  /\ \A i \in 1..Len(result.skippedPackages) :
       \E p \in Range(manifest.packages) : SamePackage(result.skippedPackages[i], p)

\* C3: when the loop ends because the resolver accepted the candidates, the
\* skip list and the candidates last used are disjoint and together make up
\* the original candidate set.
C3_SkippedAndUsedPartitionOriginal ==
  (NarrowingReturned /\ restoreSuccess) =>
    /\ \A i \in 1..Len(skippedPackages) :
         \A c \in Range(compatiblePackages) : ~ SamePackage(skippedPackages[i], c)
    /\ Range(compatiblePackages) \subseteq Range(manifest.packages)
    /\ \A p \in Range(manifest.packages) :
         \/ p \in Range(compatiblePackages)
         \/ \E i \in 1..Len(skippedPackages) : SamePackage(skippedPackages[i], p)
    /\ \A i \in 1..Len(skippedPackages) :
         \E p \in Range(manifest.packages) : SamePackage(skippedPackages[i], p)

\* The packages removed from the candidate set so far.
RemovedPackages == Range(manifest.packages) \ Range(compatiblePackages)

\* C4: the skip list holds the packages removed from the candidate set, each
\* once: no removed package is missing from it and no package is in it twice.
C4_SkipListIsRemovedOnce ==
  (manifestRead /\ pc \in { "loop", "account" }) =>
    /\ \A p \in RemovedPackages :
         \E i \in 1..Len(skippedPackages) : SamePackage(skippedPackages[i], p)
    /\ \A i, j \in 1..Len(skippedPackages) :
         i # j => ~ SamePackage(skippedPackages[i], skippedPackages[j])

\* C5: normalizeVersion is idempotent.
C5_NormalizeIdempotent ==
  (nvApplied = 2) => nvOut = normalizeVersion(nvIn)

\* C6: normalizeVersion drops every trailing "0" segment until the last
\* segment is not "0" or one segment is left, and never returns the empty
\* version.
C6_NormalizeStripsAllTrailingZeros ==
  (nvApplied = 1) =>
    /\ nvOut = stripTrailingZeros(nvIn)
    /\ nvOut # <<"">>

\* C7 as stated: a manifest that lists no packages fails without any
\* resolver invocation.
C7_EmptyManifestNeverResolved ==
  (pc = "account" /\ manifest.packages = <<>> /\ ~ manifest.malformed) =>
    /\ ~ result.success
    /\ attempts = <<>>

\* C7 as amended: a manifest that lists no packages and does not lie beside
\* exactly one .csproj fails without any resolver invocation and without a
\* lock file.
C7_EmptyManifestWithoutDescriptorFails ==
  (pc = "account" /\ manifest.packages = <<>> /\ ~ manifest.malformed
     /\ manifest.csproj # 1) =>
    /\ result.returned
    /\ ~ result.success
    /\ attempts = <<>>
    /\ ~ lockWritten
    /\ ~ workdir

C7_Witness ==
  /\ pc = "account"
  /\ manifest.csproj = 0
  /\ manifestRead
  /\ manifest.packages = <<>>
  /\ ~ manifest.malformed
  /\ result.returned
  /\ ~ result.success
  /\ attempts = <<>>

\* The manifests main has started: those accounted for and the one in progress.
InProgress == pc \in { "existing", "loop", "account" }

\* C8: a manifest beside more than one .csproj is a failure of that manifest,
\* without resolver invocation and without lock file, and is counted as
\* failed; the other manifests are still processed, each once.
C8_AmbiguousDescriptorFailsAlone ==
  /\ (InProgress /\ manifest.csproj > 1) =>
       /\ pc = "account"
       /\ result.returned
       /\ ~ result.success
       /\ result.skippedPackages = <<>>
       /\ attempts = <<>>
       /\ ~ lockWritten
       /\ ~ workdir
  /\ \A i \in 1..Len(processed) :
       processed[i].csproj > 1 =>
         /\ ~ processed[i].success
         /\ processed[i].invocations = 0
         /\ ~ processed[i].lockWritten
  /\ failCount = Cardinality({ i \in 1..Len(processed) : ~ processed[i].success })
  /\ successCount = Cardinality({ i \in 1..Len(processed) : processed[i].success })
  /\ idx = Len(processed) + (IF InProgress THEN 1 ELSE 0)
  /\ (pc = "done") => Len(processed) = files

\* An ambiguous manifest is followed by a manifest that succeeds.
C8_Witness ==
  /\ pc = "done"
  /\ Len(processed) = 2
  /\ processed[1].csproj = 2
  /\ ~ processed[1].success
  /\ processed[2].csproj = 0
  /\ processed[2].success
  /\ processed[2].lockWritten
  /\ failCount = 1
  /\ successCount = 1

\* C9: beside exactly one .csproj the resolver is invoked exactly once, on
\* that .csproj; packages.config is not read, no descriptor is generated, no
\* package is removed or skipped, and a failed restore is the failure of the
\* manifest, whatever its diagnostic names.
C9_ExistingDescriptorRestoredOnce ==
  /\ (pc = "existing") => (manifest.csproj = 1 /\ attempts = <<>>)
  /\ (InProgress /\ manifest.csproj = 1) =>
       /\ pc \in { "existing", "account" }
       /\ ~ manifestRead
       /\ compatiblePackages = <<>>
       /\ skippedPackages = <<>>
       /\ retryCount = 0
       /\ ~ workdir
  /\ (pc = "account" /\ manifest.csproj = 1) =>
       /\ Len(attempts) = 1
       /\ attempts[1].descriptor = existingCsproj
       /\ result.returned
       /\ result.skippedPackages = <<>>
       /\ ~ attempts[1].ok => (~ result.success /\ ~ lockWritten)
       /\ result.success = lockWritten
  /\ \A i \in 1..Len(processed) :
       processed[i].csproj = 1 => processed[i].invocations = 1

\* The restore of the existing .csproj fails naming the manifest's package as
\* incompatible: the manifest fails at once.
C9_Witness ==
  /\ pc = "account"
  /\ manifest.csproj = 1
  /\ manifest.packages = <<A10>>
  /\ Len(attempts) = 1
  /\ ~ attempts[1].ok
  /\ attempts[1].hasCode
  /\ attempts[1].incompatible = <<A10>>
  /\ ~ result.success

\* C10: with failOnSkipped, a manifest whose narrowing succeeds with a
\* non-empty skip list is returned as a failure.
C10_StrictSkipIsFailure ==
  (NarrowingReturned /\ failOnSkipped /\ restoreSuccess /\ skippedPackages # <<>>) =>
    ~ result.success

\* The narrowing loop replayed from the packages of the manifest and the
\* recorded resolver responses alone: the candidates handed to each
\* invocation, the candidates and the skip list after the last one, and
\* whether the loop is still running.  failOnSkipped is not consulted.
FlagFreeLoop ==
  LET F[k \in 0..Len(attempts)] ==
        IF k = 0
        THEN [packages |-> manifest.packages, skipped |-> <<>>, retries |-> 0,
              running |-> TRUE, handed |-> <<>>, invoked |-> TRUE]
        ELSE LET s == F[k - 1]
                 a == attempts[k]
                 remaining == filterCompatible(s.packages, a.incompatible)
                 narrows == /\ ~ a.ok
                            /\ a.hasCode
                            /\ a.incompatible # <<>>
                            /\ Len(remaining) < Len(s.packages)
             IN [packages |-> IF narrows THEN remaining ELSE s.packages,
                 skipped |-> IF narrows THEN s.skipped \o a.incompatible ELSE s.skipped,
                 retries |-> IF narrows THEN s.retries + 1 ELSE s.retries,
                 running |-> /\ narrows
                             /\ s.retries + 1 < maxRetries
                             /\ Len(remaining) > 0,
                 handed |-> Append(s.handed, s.packages),
                 invoked |-> s.invoked /\ s.running]
  IN F[Len(attempts)]

\* C11: failOnSkipped does not alter the narrowing loop: in every run, with
\* or without the flag, the resolver invocations, the candidates handed to
\* each of them, the packages removed and skipped and the end of the loop are
\* those of the loop replayed from the manifest and the resolver responses
\* without the flag.
C11_FlagDoesNotAlterLoop ==
  (manifestRead /\ manifest.packages # <<>> /\ pc \in { "loop", "account" }) =>
    LET replayed == FlagFreeLoop
    IN /\ replayed.invoked
       /\ \A i \in 1..Len(attempts) :
            attempts[i].descriptor.packageReferences = replayed.handed[i]
       /\ compatiblePackages = replayed.packages
       /\ skippedPackages = replayed.skipped
       /\ retryCount = replayed.retries
       /\ (pc = "loop") = replayed.running

\* With the flag, a package is skipped and the next restore succeeds: the
\* Error for skipped packages is thrown and caught by the loop.
C11_Witness ==
  /\ NarrowingReturned
  /\ failOnSkipped
  /\ Len(attempts) = 2
  /\ attempts[2].ok
  /\ skippedPackages = <<B20>>
  /\ compatiblePackages = <<A10>>
  /\ lastError = "skipped"

\* C12: with failOnSkipped, when a package was skipped during the narrowing
\* of a manifest the exit status is not 0, and it is 2 when every manifest
\* succeeded.
C12_StrictSkipExitsTwo ==
  (pc = "done" /\ failOnSkipped /\ everSkipped # {}) =>
    /\ exitStatus # 0
    /\ (\A i \in 1..Len(processed) : processed[i].success) => exitStatus = 2

C12_Witness ==
  /\ pc = "done"
  /\ failOnSkipped
  /\ everSkipped = { B20 }
  /\ Len(processed) = 1
  /\ processed[1].success
  /\ processed[1].invocations = 2
  /\ exitStatus = 2

\* C13: after the environment checks passed the exit status is 1 exactly when
\* a manifest failed, otherwise 2 exactly when failOnSkipped is set and a
\* package was skipped, otherwise 0; without the flag skipped packages do not
\* change it.
C13_ExitStatusOfAggregate ==
  (pc = "done") =>
    LET anyFailed == \E i \in 1..Len(processed) : ~ processed[i].success
        anySkipped == everSkipped # {}
    IN /\ env = "ok"
       /\ exitStatus \in { 0, 1, 2 }
       /\ (exitStatus = 1) = anyFailed
       /\ (exitStatus = 2) = (~ anyFailed /\ failOnSkipped /\ anySkipped)
       /\ (exitStatus = 0) = (~ anyFailed /\ ~ (failOnSkipped /\ anySkipped))
       /\ ~ failOnSkipped => exitStatus = (IF anyFailed THEN 1 ELSE 0)

\* Under the strict flag a manifest skips a package and then fails: status 1.
C13_Witness ==
  /\ pc = "done"
  /\ failOnSkipped
  /\ everSkipped # {}
  /\ totalSkippedPackages # <<>>
  /\ Len(processed) = 1
  /\ ~ processed[1].success
  /\ exitStatus = 1

\* C14: every discovered manifest is processed exactly once whatever became
\* of the manifests before it: each manifest main has finished added one to
\* exactly one of the two counters, the manifests are started one after the
\* other, and the run ends only when all of them are counted.
C14_EveryManifestCountedOnce ==
  /\ successCount + failCount = Len(processed)
  /\ successCount = Cardinality({ i \in 1..Len(processed) : processed[i].success })
  /\ idx = Len(processed) + (IF InProgress THEN 1 ELSE 0)
  /\ idx <= files
  /\ (pc = "done") => (idx = files /\ successCount + failCount = files)
  /\ (pc \in { "existing", "loop" }) => ~ result.returned
  /\ (pc = "account") => result.returned

\* A manifest that failed before any resolver invocation (parse error or no
\* packages) is followed by a manifest that is processed and succeeds.
C14_Witness ==
  /\ pc = "done"
  /\ files = 2
  /\ Len(processed) = 2
  /\ processed[1].csproj = 0
  /\ ~ processed[1].success
  /\ processed[1].invocations = 0
  /\ processed[2].success
  /\ successCount = 1
  /\ failCount = 1

\* C15: the skipped set of the summary is the set of the entries put on a
\* skip list while any manifest was processed, each id@version pair once.
C15_ReportIsUnionOfSkipped ==
  (pc = "done") =>
    LET report == uniqueSkipped(totalSkippedPackages)
    IN /\ Range(report) = everSkipped
       /\ \A i, j \in 1..Len(report) : i # j => report[i] # report[j]

\* C16: an environment error ends the run with status 1 before anything is
\* done for a manifest: nothing discovered, nothing read, no resolver
\* invocation, no lock file.
C16_EnvironmentErrorIsFatal ==
  (env \notin { "unchecked", "ok" }) =>
    /\ pc = "fatal"
    /\ exitStatus = 1
    /\ files = 0
    /\ idx = 0
    /\ manifest = NoManifest
    /\ ~ manifestRead
    /\ attempts = <<>>
    /\ processed = <<>>
    /\ ~ lockWritten
    /\ ~ workdir
    /\ successCount = 0
    /\ failCount = 0

C16_Witness ==
  /\ env = "noDotnet"
  /\ pc = "fatal"
  /\ exitStatus = 1

\* The skip list before attempt k: what the attempts before it named.
SkippedBefore(k) ==
  LET F[i \in 0..(k - 1)] ==
        IF i = 0 THEN <<>> ELSE F[i - 1] \o attempts[i].incompatible
  IN F[k - 1]

\* What the claims C18 and C19 say of the attempt on which the loop ends in
\* failure: it is the last invocation, the manifest fails without lock file,
\* and the candidates and the skip list are those the attempt started with.
EndsInFailureAt(i) ==
  /\ i = Len(attempts)
  /\ pc = "account"
  /\ result.returned
  /\ ~ result.success
  /\ ~ lockWritten
  /\ ~ restoreSuccess
  /\ compatiblePackages = attempts[i].descriptor.packageReferences
  /\ skippedPackages = SkippedBefore(i)
  /\ result.skippedPackages = SkippedBefore(i)
  /\ (i = 1) => (compatiblePackages = manifest.packages /\ skippedPackages = <<>>)

\* A failed attempt whose text lacks the NU1202 code or names no package.
NoSignal(att) ==
  /\ ~ att.ok
  /\ (~ att.hasCode \/ att.incompatible = <<>>)

\* C18: a failed attempt whose diagnostic lacks the NU1202 code, or has it
\* but names no package, ends the loop: the manifest fails, nothing is
\* removed or skipped, no further invocation is made.
C18_NoSignalEndsLoop ==
  (manifestRead /\ pc \in { "loop", "account" }) =>
    \A i \in 1..Len(attempts) : NoSignal(attempts[i]) => EndsInFailureAt(i)

\* The first restore fails with "Package A 1.0 is not compatible" but without
\* the NU1202 code.
C18_Witness ==
  /\ NarrowingReturned
  /\ manifest.packages = <<A10>>
  /\ Len(attempts) = 1
  /\ ~ attempts[1].ok
  /\ ~ attempts[1].hasCode
  /\ attempts[1].incompatible = <<A10>>
  /\ compatiblePackages = <<A10>>
  /\ ~ result.success

\* A failed attempt that names packages under NU1202, none of them a candidate.
Stuck(att) ==
  /\ ~ att.ok
  /\ att.hasCode
  /\ att.incompatible # <<>>
  /\ \A e \in Range(att.incompatible) :
       \A c \in Range(att.descriptor.packageReferences) : ~ SamePackage(e, c)

\* C19: a failed attempt that reports only packages outside the candidate set
\* ends the loop in failure: no further invocation, candidates and skip list
\* as before the attempt.
C19_StuckEndsLoop ==
  (manifestRead /\ pc \in { "loop", "account" }) =>
    \A i \in 1..Len(attempts) : Stuck(attempts[i]) => EndsInFailureAt(i)

\* After B@2.0 was removed the resolver names B 3, which is no candidate.
C19_Witness ==
  /\ NarrowingReturned
  /\ manifest.packages = <<A10, B20>>
  /\ Len(attempts) = 2
  /\ attempts[1].incompatible = <<B20>>
  /\ Stuck(attempts[2])
  /\ attempts[2].incompatible = <<B3>>
  /\ compatiblePackages = <<A10>>
  /\ skippedPackages = <<B20>>
  /\ ~ result.success

\* C17: the narrowing filter removes exactly the candidates for which a
\* reported entry has the same identifier ignoring case and the same version
\* once the trailing zero segments of both are dropped (Foo@1.0.0.0 goes
\* when foo 1.0 is reported), and keeps the others in their order.
C17_FilterRemovesNormalizedMatches ==
  (fcApplied = 1) =>
    fcOut = SelectSeq(fcPackages,
                      LAMBDA c : ~ \E i \in 1..Len(fcIncompatible) :
                                     SamePackage(fcIncompatible[i], c))

\* C20: the narrowing loop makes at most maxRetries resolver invocations, and
\* when maxRetries attempts have each removed packages, or no candidate is
\* left, it makes no further attempt and the manifest is returned as failed.
C20_LoopIsBounded ==
  /\ lpInvocations <= maxRetries
  /\ lpRetry <= maxRetries
  /\ (lpRetry = maxRetries \/ (lpPc # "idle" /\ lpCandidates = 0)) =>
       /\ ~ lpSuccess
       /\ lpInvocations = lpRetry
       /\ ~ lpResult
       /\ ~ ENABLED LoopAttempt

\* Twenty attempts have each removed a package and candidates are left.
C20_Witness ==
  /\ lpPc = "returned"
  /\ lpRetry = maxRetries
  /\ lpInvocations = maxRetries
  /\ lpCandidates > 0
  /\ ~ lpResult

\* s is an order-preserving subsequence of t.
RECURSIVE IsSubsequence(_, _)
IsSubsequence(s, t) ==
  IF s = <<>> THEN TRUE
  ELSE IF t = <<>> THEN FALSE
  ELSE IF Head(s) = Head(t) THEN IsSubsequence(Tail(s), Tail(t))
  ELSE IsSubsequence(s, Tail(t))

\* The candidates handed to the k-th resolver invocation of the current manifest.
Handed(k) == attempts[k].descriptor.packageReferences

C22_CandidatesUniqueById ==
  (manifestRead /\ pc \in { "loop", "account" }) =>
    \A k \in 1..Len(attempts) :
      \A i, j \in 1..Len(Handed(k)) :
        i # j => Handed(k)[i].id # Handed(k)[j].id

\* C23: the temporary directory of a manifest exists from before the first
\* resolver invocation of its narrowing loop until the loop's manifest has
\* returned, and at no other time: it is gone on every exit path before main
\* counts the result and before the next manifest begins.
C23_WorkdirScopedToManifest ==
  /\ (pc = "loop") => (workdir /\ manifestRead)
  /\ (pc # "loop") => ~ workdir
  /\ (manifestRead /\ attempts # <<>> /\ pc = "account") => (result.returned /\ ~ workdir)

\* A manifest whose narrowing failed has been counted and the next manifest
\* has its own directory.
C23_Witness ==
  /\ pc = "loop"
  /\ workdir
  /\ attempts = <<>>
  /\ Len(processed) = 1
  /\ processed[1].csproj = 0
  /\ processed[1].invocations > 0
  /\ ~ processed[1].success

\* C24: manifests are processed one at a time in discovery order: a manifest
\* is started only when every manifest before it has been counted, by the
\* step that follows the previous one; resolver invocations and lock-file
\* writes belong to the one manifest in progress; the counters and the
\* skipped packages of the run change only in the step between two manifests.
C24_OneManifestAtATime ==
  [][ /\ (idx' # idx) =>
           /\ idx' = idx + 1
           /\ pc = "for"
           /\ Len(processed) = idx
           /\ successCount + failCount = idx
           /\ attempts = <<>>
           /\ ~ lockWritten
           /\ ~ result.returned
      /\ ((attempts' # attempts /\ attempts' # <<>>) \/ (lockWritten' /\ ~ lockWritten)) =>
           /\ idx' = idx
           /\ Len(processed) = idx - 1
           /\ processed' = processed
           /\ successCount' = successCount
           /\ failCount' = failCount
           /\ totalSkippedPackages' = totalSkippedPackages
      /\ (\/ successCount' # successCount
          \/ failCount' # failCount
          \/ totalSkippedPackages' # totalSkippedPackages) =>
           /\ pc = "account"
           /\ pc' = "for"
           /\ idx' = idx
           /\ Len(processed') = idx
           /\ attempts' = <<>>
    ]_vars

\* The second manifest has returned from its resolver invocations after the
\* first one was counted with its lock file written.
C24_Witness ==
  /\ pc = "account"
  /\ idx = 2
  /\ Len(processed) = 1
  /\ processed[1].lockWritten
  /\ processed[1].invocations > 0
  /\ attempts # <<>>
  /\ successCount + failCount = 1

\* C25: each failed attempt ends the loop or strictly shrinks the candidate
\* set, so the resolver invocations of a manifest never outnumber the
\* packages of its original candidate set.
C25_InvocationsWithinCandidates ==
  (manifestRead /\ pc \in { "loop", "account" }) =>
    /\ Len(attempts) <= Len(manifest.packages)
    /\ \A k \in 2..Len(attempts) : Len(Handed(k)) < Len(Handed(k - 1))
    /\ (pc = "loop") =>
         /\ Len(compatiblePackages) > 0
         /\ Len(attempts) + Len(compatiblePackages) <= Len(manifest.packages)
         /\ retryCount = Len(attempts)

\* Two packages, two failed attempts, each removing one: no candidate is left.
C25_Witness ==
  /\ NarrowingReturned
  /\ Len(manifest.packages) = 2
  /\ Len(attempts) = 2
  /\ ~ attempts[2].ok
  /\ Len(Handed(2)) = 1
  /\ compatiblePackages = <<>>

\* C26: in the narrowing path a manifest is returned and counted as succeeded
\* only if its last resolver invocation succeeded on a non-empty candidate
\* set and the lock file was copied; when the last invocation failed or no
\* candidate is left no lock file is copied.
C26_SuccessMeansLockCopied ==
  /\ NarrowingReturned =>
       /\ result.success =>
            /\ attempts # <<>>
            /\ attempts[Len(attempts)].ok
            /\ Handed(Len(attempts)) # <<>>
            /\ restoreSuccess
            /\ lockWritten
       /\ (attempts = <<>> \/ ~ attempts[Len(attempts)].ok \/ compatiblePackages = <<>>) =>
            (~ lockWritten /\ ~ result.success)
       /\ lockWritten => result.success
  /\ (manifestRead /\ pc = "loop") => ~ lockWritten
  /\ \A i \in 1..Len(processed) :
       (processed[i].csproj = 0) =>
         /\ processed[i].success = processed[i].lockWritten
         /\ processed[i].success => processed[i].invocations > 0

\* The only package is rejected: the candidate set is emptied and the
\* manifest fails without lock file.
C26_Witness ==
  /\ NarrowingReturned
  /\ manifest.packages = <<A10>>
  /\ Len(attempts) = 1
  /\ attempts[1].hasCode
  /\ attempts[1].incompatible = <<A10>>
  /\ compatiblePackages = <<>>
  /\ ~ result.success
  /\ ~ lockWritten

====
